---- MODULE Spec2Model ----
(***************************************************************************)
(* Model of cnaas_nms/tools/security.py: the bearer-token validator        *)
(* (MyBearerTokenValidator), the shared key registry (JWKSStore), the      *)
(* userinfo cache kept in one redis hash (get_oauth_userinfo) and the      *)
(* permission gate (validate_token).                                       *)
(*                                                                         *)
(* Every request runs on its own worker; a worker's position in the code   *)
(* is pc[w].  Each action is one atomic step of the code: the reads and    *)
(* writes of shared state (JWKSStore().keys, the redis hash, the remote    *)
(* endpoints) are separate steps, so that workers interleave between them. *)
(***************************************************************************)
EXTENDS Integers, Sequences, FiniteSets, TLC

(***************************************************************************)
(* Bounds of the model.                                                    *)
(***************************************************************************)
StartTime == 3600
TickStep == 1800
MaxTicks == 2
MaxSent == 3

Workers == {"w1", "w2"}

(***************************************************************************)
(* Python values.                                                          *)
(***************************************************************************)
\* Python's None, a value different from every dict
None == [py_none |-> TRUE]

\* how a call ends: it returns a value or raises an exception
Return(v) == [kind |-> "return", value |-> v]
Raise(e) == [kind |-> "raise", exc |-> e]
NoResult == [kind |-> "running"]

Min(a, b) == IF a <= b THEN a ELSE b

(***************************************************************************)
(* Signing keys and the key sets the provider's jwks_uri can serve.        *)
(* A JWK is a dict; "kid" is an optional member of a JWK, and the code     *)
(* reads k["kid"].  mat stands for the key material.                       *)
(***************************************************************************)
K1 == [kid |-> "k1", mat |-> "m1"]
K2 == [kid |-> "k2", mat |-> "m2"]
K3 == [kid |-> "k3", mat |-> "malformed"]
KNoKid == [mat |-> "m4"]

KeySets == { <<>>, <<K1>>, <<K1, K2>>, <<K3>>, <<KNoKid>> }

HasKid(k) == "kid" \in DOMAIN k

(***************************************************************************)
(* Bearer token strings.  A structured token has a header, a payload and   *)
(* a signature made with some key material; an opaque string has no header *)
(* that jose can decode.                                                   *)
(***************************************************************************)
AUDIENCE == "cnaas"
ExpPast == StartTime - TickStep
ExpSoon == StartTime + TickStep
ExpLate == StartTime + 3 * TickStep

Jwt(kid, signer, payload) ==
    [structured |-> TRUE, header |-> [kid |-> kid, alg |-> "RS256"],
     signer |-> signer, payload |-> payload]

OpaqueString == [structured |-> FALSE, raw |-> "opaque"]

AuthTokenStrings ==
    { Jwt("k1", "m1", [sub |-> "alice", exp |-> ExpSoon, aud |-> AUDIENCE]),
      Jwt("k1", "m1", [sub |-> "alice", exp |-> ExpPast, aud |-> AUDIENCE]),
      Jwt("k1", "m1", [sub |-> "alice", exp |-> ExpSoon, aud |-> "other"]),
      Jwt("k1", "m1", [sub |-> "alice", exp |-> ExpPast, aud |-> "other"]),
      Jwt("k1", "forged", [sub |-> "alice", exp |-> ExpSoon, aud |-> AUDIENCE]),
      Jwt("k3", "m3", [sub |-> "bob", exp |-> ExpSoon, aud |-> AUDIENCE]),
      OpaqueString }

\* The second worker is the concurrent request: what it does to the first is
\* decided by the kid of its token alone, so its other fields do not vary.
RacerTokenStrings ==
    { Jwt("k1", "m1", [sub |-> "alice", exp |-> ExpSoon, aud |-> AUDIENCE]),
      Jwt("k2", "m2", [sub |-> "bob", exp |-> ExpLate, aud |-> AUDIENCE]) }

TokenStringsOf(w) == IF w = "w1" THEN AuthTokenStrings ELSE RacerTokenStrings

\* Token(token_string, decoded_token) of cnaas_nms.tools.rbac.token
Token(ts, decoded) == [token_string |-> ts, decoded_token |-> decoded]

(***************************************************************************)
(* The provider's userinfo endpoint: the claims it returns for a token.    *)
(***************************************************************************)
Subjects == {"alice", "bob"}

claims_of(tok) ==
    IF tok.decoded_token = None \/ "sub" \notin DOMAIN tok.decoded_token
    THEN [email |-> "anonymous@example.com", groups |-> {}]
    ELSE IF tok.decoded_token.sub = "alice"
    THEN [sub |-> "alice", email |-> "alice@example.com",
          groups |-> {"network-admins"}]
    ELSE [sub |-> tok.decoded_token.sub, groups |-> {"guests"}]

\* resp.text, and json.loads of it
json_text(claims) == <<"json", claims>>
json_loads(text) == text[2]

REDIS_OAUTH_USERINFO_KEY == "oauth_userinfo"
\* the hash has no time to live (what redis reports as TTL -1)
NoExpiry == 0 - 1

VARIABLES
    OIDC_ENABLED, VERIFY_AUDIENCE,      \* auth_settings, fixed at start
    JWT_ENABLED,                        \* api_settings, fixed at start
    PERMISSIONS_DISABLED, PERMISSIONS,
    jwks_store,                         \* JWKSStore().keys
    idp_keys,                           \* the key set the provider serves now
    redis_hash,                         \* the fields of the redis hash
    redis_expiry,                       \* when redis drops the hash
    written,                            \* per field: the exp claim of the token of its hsetnx
    now,                                \* time.time()
    pc,                                 \* where each worker is in the code
    token_string,                       \* authenticate_token's argument
    key,                                \* get_key's local "key"
    response,                           \* get_keys' local "response"
    token,                              \* the Token object of the request
    caller,                             \* who called get_oauth_userinfo
    resp,                               \* get_oauth_userinfo's local "resp"
    userinfo,                           \* how get_oauth_userinfo ended
    scopes, request,                    \* validate_token's arguments
    result,                             \* how the worker's call ended
    hist,                               \* what the worker's call has done
    mule_pc,                            \* where scheduler_mule.main_loop is
    mule_msgs,                          \* messages sent to the mule, unread
    jobs                                \* the scheduler.add_job calls made

cfgVars == <<OIDC_ENABLED, VERIFY_AUDIENCE, JWT_ENABLED, PERMISSIONS_DISABLED,
             PERMISSIONS>>
keyVars == <<jwks_store, idp_keys>>
cacheVars == <<redis_hash, redis_expiry, written>>
authLocals == <<token_string, key, response>>
uiLocals == <<caller, resp, userinfo>>
permLocals == <<scopes, request>>
workerVars == <<pc, authLocals, token, uiLocals, permLocals, result, hist>>
muleVars == <<mule_pc, mule_msgs, jobs>>
vars == <<cfgVars, keyVars, cacheVars, now, workerVars, muleVars>>

NoHist == [refreshes |-> 0, lookups |-> 0, fetches |-> 0,
           absent |-> FALSE, refreshed |-> FALSE, refresh_failure |-> "none",
           posts |-> 0, cache_hit |-> FALSE,
           read_error |-> FALSE, write_error |-> FALSE, remote_failure |-> FALSE,
           set_field |-> FALSE, in_window |-> FALSE, window |-> 0 - 1,
           snapshot |-> <<>>, overwritten |-> FALSE, inspected |-> FALSE]

(***************************************************************************)
(* get_key's list comprehension  [k for k in keys if k["kid"] == kid]      *)
(***************************************************************************)
\* k["kid"] raises KeyError on the first JWK without a kid
lookup_raises(keys) == \E i \in 1..Len(keys) : ~HasKid(keys[i])

kid_matches(k, kid) == HasKid(k) /\ k.kid = kid

\* faulty variant: only the first key of the store is examined
lookup_first(keys, kid) ==
    IF Len(keys) = 0 THEN <<>>
    ELSE SelectSeq(<<keys[1]>>, LAMBDA k : kid_matches(k, kid))

lookup(keys, kid) == SelectSeq(keys, LAMBDA k : kid_matches(k, kid))

\* whether kid names a key of the store
kid_in_store(keys, kid) == \E i \in 1..Len(keys) : kid_matches(keys[i], kid)

(***************************************************************************)
(* jose's jwt.decode(token_string, key, algorithms, audience, options):    *)
(* the signature is verified with the keys in order (building a key from a *)
(* malformed JWK raises JWKError), then exp, then aud when verify_aud.     *)
(***************************************************************************)
verifies(keys, signer) ==
    \E i \in 1..Len(keys) :
        /\ keys[i].mat = signer
        /\ \A j \in 1..(i - 1) : keys[j].mat # "malformed"

malformed_first(keys, signer) ==
    \E i \in 1..Len(keys) :
        /\ keys[i].mat = "malformed"
        /\ \A j \in 1..(i - 1) : keys[j].mat # signer

\* faulty variant: the audience is verified whatever VERIFY_AUDIENCE says
check_audience_always(verify_aud, payload) ==
    "aud" \in DOMAIN payload => payload.aud = AUDIENCE

check_audience(verify_aud, payload) ==
    verify_aud /\ "aud" \in DOMAIN payload => payload.aud = AUDIENCE

jwt_decode(ts, keys, verify_aud, t) ==
    IF malformed_first(keys, ts.signer) THEN Raise("JWKError")
    ELSE IF ~verifies(keys, ts.signer) THEN Raise("JWTError")
    ELSE IF "exp" \in DOMAIN ts.payload /\ ts.payload.exp < t
         THEN Raise("ExpiredSignatureError")
    ELSE IF ~check_audience(verify_aud, ts.payload) THEN Raise("JWTClaimsError")
    ELSE Return(ts.payload)

\* faulty variant: "except JWTError" comes first; ExpiredSignatureError and
\* JWTClaimsError are subclasses of JWTError
decode_outcome_jwterror_first(ts, out) ==
    IF out.kind = "return" THEN Return(Token(ts, out.value))
    ELSE IF out.exc = "JWKError" THEN Raise("InvalidKeyError")
    ELSE Raise("InvalidTokenError")

\* the except clauses around jwt.decode, in their order
decode_outcome(ts, out) ==
    IF out.kind = "return" THEN Return(Token(ts, out.value))
    ELSE IF out.exc = "ExpiredSignatureError" THEN Raise("ExpiredSignatureError")
    ELSE IF out.exc = "JWKError" THEN Raise("InvalidKeyError")
    ELSE Raise("InvalidTokenError")

(***************************************************************************)
(* Token(...)["sub"] as get_oauth_userinfo evaluates it: subscripting None *)
(* raises TypeError, a dict without the member raises KeyError.            *)
(***************************************************************************)
subscript(d, name) ==
    IF d = None THEN Raise("TypeError")
    ELSE IF name \notin DOMAIN d THEN Raise("KeyError")
    ELSE Return(d[name])

(***************************************************************************)
(* The rule table and cnaas_nms.tools.rbac.rbac.  A rule grants the        *)
(* members of a group one operation: a method and a path pattern.          *)
(***************************************************************************)
Rules ==
    [rules |-> { [group |-> "network-admins", method |-> "PUT",
                  pattern |-> <<"devices", "*">>] }]
EmptyRules == [rules |-> {}]
RuleTables == {None, EmptyRules, Rules}

\* faulty variant: only an unset table counts, "permissions_rules is None"
not_rules_unset(table) == table = None

\* "not permissions_rules": None and the empty table are both falsy
not_rules(table) == table = None \/ table.rules = {}

pattern_matches(pattern, path) ==
    /\ Len(pattern) = Len(path)
    /\ \A i \in 1..Len(pattern) : pattern[i] = "*" \/ pattern[i] = path[i]

get_permissions_user(table, user_info) ==
    IF user_info = None \/ "groups" \notin DOMAIN user_info THEN {}
    ELSE { r \in table.rules : r.group \in user_info.groups }

check_if_api_call_is_permitted(req, permissions) ==
    \E r \in permissions :
        r.method = req.method /\ pattern_matches(r.pattern, req.path)

Requests ==
    { [method |-> "PUT", path |-> <<"devices", "42">>],
      [method |-> "DELETE", path |-> <<"devices", "42">>] }

\* the scopes argument: None, or a list of scope names
ScopeLists ==
    { None, [items |-> {}], [items |-> {"always_permitted"}],
      [items |-> {"read"}], [items |-> {"read", "always_permitted"}] }

\* faulty variant: the scope list must be exactly ["always_permitted"]
always_permitted_only(sc) == sc # None /\ sc.items = {"always_permitted"}

always_permitted(sc) == sc # None /\ "always_permitted" \in sc.items

\* faulty variant: any permission at all allows the call
validate_permissions_nonempty(tok, req, table, user_info) ==
    IF get_permissions_user(table, user_info) = {}
    THEN Raise("InvalidAudienceError")
    ELSE Return(tok)

\* validate_token after get_oauth_userinfo returned user_info
validate_permissions(tok, req, table, user_info) ==
    LET permissions == get_permissions_user(table, user_info)
    IN IF permissions = {} THEN Raise("InvalidAudienceError")
       ELSE IF check_if_api_call_is_permitted(req, permissions) THEN Return(tok)
       ELSE Raise("InvalidAudienceError")

\* get_oauth_identity after get_oauth_userinfo returned user_info
identity_email(user_info) ==
    IF user_info = None THEN Raise("TypeError")
    ELSE IF "email" \notin DOMAIN user_info THEN Raise("KeyError")
    ELSE Return([str |-> user_info.email])

(***************************************************************************)
(* Tokens that reach get_oauth_userinfo with decoded claims.               *)
(***************************************************************************)
IdentPayloads ==
    { [sub |-> "alice", exp |-> ExpSoon],
      [sub |-> "alice", exp |-> ExpLate],
      [sub |-> "alice"],
      [sub |-> "bob", exp |-> ExpSoon],
      [exp |-> ExpSoon] }

IdentTokens == { Token(Jwt("k1", "m1", p), p) : p \in IdentPayloads }

\* The second worker is the racing writer of the cache.
RacerPayloads ==
    { [sub |-> "bob", exp |-> ExpSoon],
      [sub |-> "alice", exp |-> ExpLate] }

RacerTokens == { Token(Jwt("k1", "m1", p), p) : p \in RacerPayloads }

TokensOf(w) == IF w = "w1" THEN IdentTokens ELSE RacerTokens

NoTokenNeeded == [str |-> "no-token-needed"]
NoRequest == [method |-> "GET", path |-> <<>>]

(***************************************************************************)
(* The state after the process has started: nothing cached, no request in  *)
(* progress.  The settings are read once and never change.                 *)
(***************************************************************************)
InitState ==
    /\ jwks_store = <<>>
    /\ redis_hash = <<>>
    /\ redis_expiry = NoExpiry
    /\ written = <<>>
    /\ now = StartTime
    /\ pc = [w \in Workers |-> "idle"]
    /\ token_string = [w \in Workers |-> OpaqueString]
    /\ key = [w \in Workers |-> <<>>]
    /\ response = [w \in Workers |-> <<>>]
    /\ token = [w \in Workers |-> None]
    /\ caller = [w \in Workers |-> "none"]
    /\ resp = [w \in Workers |-> None]
    /\ userinfo = [w \in Workers |-> NoResult]
    /\ scopes = [w \in Workers |-> None]
    /\ request = [w \in Workers |-> NoRequest]
    /\ result = [w \in Workers |-> NoResult]
    /\ hist = [w \in Workers |-> NoHist]
    /\ mule_pc = "start"
    /\ mule_msgs = <<>>
    /\ jobs = <<>>

Init ==
    /\ OIDC_ENABLED \in BOOLEAN
    /\ VERIFY_AUDIENCE \in BOOLEAN
    /\ JWT_ENABLED = TRUE
    /\ PERMISSIONS_DISABLED = FALSE
    /\ PERMISSIONS = None
    /\ idp_keys \in KeySets
    /\ InitState

\* the worker's call ends with outcome r
finish(w, r) ==
    /\ pc' = [pc EXCEPT ![w] = "done"]
    /\ result' = [result EXCEPT ![w] = r]

goto(w, label) ==
    /\ pc' = [pc EXCEPT ![w] = label]
    /\ UNCHANGED result

\* a worker takes up a new request: its locals are those of a fresh call
fresh(w, ts, tok, sc, req, who, h) ==
    /\ token_string' = [token_string EXCEPT ![w] = ts]
    /\ token' = [token EXCEPT ![w] = tok]
    /\ scopes' = [scopes EXCEPT ![w] = sc]
    /\ request' = [request EXCEPT ![w] = req]
    /\ caller' = [caller EXCEPT ![w] = who]
    /\ key' = [key EXCEPT ![w] = <<>>]
    /\ response' = [response EXCEPT ![w] = <<>>]
    /\ resp' = [resp EXCEPT ![w] = None]
    /\ userinfo' = [userinfo EXCEPT ![w] = NoResult]
    /\ hist' = [hist EXCEPT ![w] = h]

(***************************************************************************)
(* MyBearerTokenValidator.authenticate_token, up to the key lookup         *)
(***************************************************************************)
authenticate_token(w, ts) ==
    /\ pc[w] \in {"idle", "done"}
    /\ IF ~OIDC_ENABLED
       THEN /\ fresh(w, ts, None, None, NoRequest, "none", NoHist)
            /\ finish(w, Return(NoTokenNeeded))
       ELSE IF ~ts.structured
       THEN \* get_unverified_header raises JWTError: the opaque path
            /\ fresh(w, ts, Token(ts, None), None, NoRequest, "authenticate_token", NoHist)
            /\ pc' = [pc EXCEPT ![w] = "get_oauth_userinfo"]
            /\ result' = [result EXCEPT ![w] = NoResult]
       ELSE /\ fresh(w, ts, None, None, NoRequest, "none", NoHist)
            /\ pc' = [pc EXCEPT ![w] = "get_key"]
            /\ result' = [result EXCEPT ![w] = NoResult]
    /\ UNCHANGED <<cfgVars, muleVars, keyVars, cacheVars, now>>

(***************************************************************************)
(* MyBearerTokenValidator.get_key: the first lookup                        *)
(***************************************************************************)
get_key(w) ==
    /\ pc[w] = "get_key"
    /\ LET kid == token_string[w].header.kid
           keys == jwks_store
       IN IF lookup_raises(keys)
          THEN /\ finish(w, Raise("KeyError"))
               /\ hist' = [hist EXCEPT ![w].lookups = @ + 1,
                                       ![w].absent = ~kid_in_store(keys, kid)]
               /\ UNCHANGED key
          ELSE /\ key' = [key EXCEPT ![w] = lookup(keys, kid)]
               /\ IF Len(lookup(keys, kid)) = 0
                  THEN /\ goto(w, "get_keys")
                       /\ hist' = [hist EXCEPT ![w].lookups = @ + 1,
                                               ![w].absent = ~kid_in_store(keys, kid),
                                               ![w].refreshes = @ + 1,
                                               ![w].snapshot = keys]
                  ELSE /\ goto(w, "decode")
                       /\ hist' = [hist EXCEPT ![w].lookups = @ + 1,
                                               ![w].absent = ~kid_in_store(keys, kid)]
    /\ UNCHANGED <<cfgVars, muleVars, keyVars, cacheVars, now, token_string, response,
                   token, uiLocals, permLocals>>

(***************************************************************************)
(* MyBearerTokenValidator.get_keys: two remote GETs, then the store is     *)
(* assigned.  KeyError becomes InvalidKeyError; nothing else is caught     *)
(* (requests raises HTTPError only from raise_for_status, never called).   *)
(***************************************************************************)
GetOutcomes == {"ok", "no_field", "unreachable", "not_json"}

\* faulty variant: a response without the expected field is taken as usable
get_ok_lenient(outcome) == outcome \in {"ok", "no_field"}

\* the GET answered with JSON that holds the expected field
get_ok(outcome) == outcome = "ok"

get_failure(outcome) ==
    IF outcome = "no_field" THEN Raise("InvalidKeyError")
    ELSE IF outcome = "unreachable" THEN Raise("requests.ConnectionError")
    ELSE Raise("requests.JSONDecodeError")

get_keys_metadata(w, outcome) ==
    /\ pc[w] = "get_keys"
    /\ hist' = [hist EXCEPT ![w].fetches = @ + 1,
                            ![w].refresh_failure = IF outcome = "ok" THEN @ ELSE outcome,
                            ![w].snapshot = IF outcome = "ok" THEN @ ELSE <<>>,
                            ![w].overwritten = IF outcome = "ok" THEN @ ELSE FALSE]
    /\ IF get_ok(outcome) THEN goto(w, "get_keys_jwks")
       ELSE finish(w, get_failure(outcome))
    /\ UNCHANGED <<cfgVars, muleVars, keyVars, cacheVars, now, authLocals, token,
                   uiLocals, permLocals>>

get_keys_jwks(w, outcome) ==
    /\ pc[w] = "get_keys_jwks"
    /\ hist' = [hist EXCEPT ![w].fetches = @ + 1,
                            ![w].refresh_failure = IF outcome = "ok" THEN @ ELSE outcome,
                            ![w].snapshot = IF outcome = "ok" THEN @ ELSE <<>>,
                            ![w].overwritten = IF outcome = "ok" THEN @ ELSE FALSE]
    /\ IF get_ok(outcome)
       THEN /\ response' = [response EXCEPT ![w] = idp_keys]
            /\ goto(w, "get_keys_install")
       ELSE /\ finish(w, get_failure(outcome))
            /\ UNCHANGED response
    /\ UNCHANGED <<cfgVars, muleVars, keyVars, cacheVars, now, token_string, key, token,
                   uiLocals, permLocals>>

\* faulty variant: the keys are installed one by one, and only the first is
keys_assigned_partly(stored, fetched) ==
    IF Len(fetched) > 1 THEN SubSeq(fetched, 1, 1) ELSE fetched

\* jwks_store.keys = response.json()["keys"]: the attribute is rebound to the
\* fetched list, the list it held is not touched
keys_assigned(stored, fetched) == fetched

\* a worker between its first lookup and the end of its refresh
refreshing(w) == pc[w] \in {"get_keys", "get_keys_jwks", "get_keys_install"}

get_keys_install(w) ==
    /\ pc[w] = "get_keys_install"
    /\ jwks_store' = keys_assigned(jwks_store, response[w])
    /\ hist' = [o \in Workers |->
                  IF o = w
                  THEN [hist[o] EXCEPT !.refreshed = TRUE, !.snapshot = <<>>,
                                       !.overwritten = FALSE]
                  ELSE IF refreshing(o) /\ jwks_store' # jwks_store
                  THEN [hist[o] EXCEPT !.snapshot = <<>>, !.overwritten = TRUE]
                  ELSE hist[o]]
    /\ goto(w, "get_key_downloaded")
    /\ UNCHANGED <<cfgVars, muleVars, idp_keys, cacheVars, now, authLocals, token,
                   uiLocals, permLocals>>

(***************************************************************************)
(* get_key after get_keys returned                                         *)
(***************************************************************************)
get_key_downloaded(w) ==
    /\ pc[w] = "get_key_downloaded"
    /\ IF Len(jwks_store) = 0
       THEN finish(w, Raise("InvalidKeyError"))
       ELSE goto(w, "get_key_retry")
    /\ UNCHANGED <<cfgVars, muleVars, keyVars, cacheVars, now, authLocals, token,
                   uiLocals, permLocals, hist>>

get_key_retry(w) ==
    /\ pc[w] = "get_key_retry"
    /\ hist' = [hist EXCEPT ![w].lookups = @ + 1]
    /\ LET kid == token_string[w].header.kid
           keys == jwks_store
       IN IF lookup_raises(keys)
          THEN /\ finish(w, Raise("InvalidKeyError"))
               /\ UNCHANGED key
          ELSE /\ key' = [key EXCEPT ![w] = lookup(keys, kid)]
               /\ IF Len(lookup(keys, kid)) = 0
                  THEN finish(w, Raise("InvalidKeyError"))
                  ELSE goto(w, "decode")
    /\ UNCHANGED <<cfgVars, muleVars, keyVars, cacheVars, now, token_string, response,
                   token, uiLocals, permLocals>>

(***************************************************************************)
(* authenticate_token after get_key: jwt.decode and the Token              *)
(***************************************************************************)
authenticate_decode(w) ==
    /\ pc[w] = "decode"
    /\ LET out == decode_outcome(token_string[w],
                      jwt_decode(token_string[w], key[w], VERIFY_AUDIENCE, now))
       IN /\ finish(w, out)
          /\ token' = [token EXCEPT ![w] =
                          IF out.kind = "return" THEN out.value ELSE None]
    /\ UNCHANGED <<cfgVars, muleVars, keyVars, cacheVars, now, authLocals, uiLocals,
                   permLocals, hist>>

\* the provider rotates its signing keys
rotate_keys(ks) ==
    /\ ks # idp_keys
    /\ idp_keys' = ks
    /\ UNCHANGED <<cfgVars, muleVars, jwks_store, cacheVars, now, workerVars>>

(***************************************************************************)
(* The redis hash REDIS_OAUTH_USERINFO_KEY.  All fields share the one      *)
(* expiry of the hash.  Every redis call can raise RedisError.             *)
(***************************************************************************)
CacheSeconds == 3600

\* faulty variant: the one-hour cap is forgotten
expire_at_uncapped(exp, t) == exp

\* expire_at = min(int(token.decoded_token["exp"]), int(time.time()) + 3600)
expire_at(exp, t) == Min(exp, t + CacheSeconds)

\* HSETNX: the field is set only if it does not exist
hsetnx(h, field, value) ==
    IF field \in DOMAIN h THEN h ELSE (field :> value) @@ h

\* EXPIREAT key when LT: the expiry is set only if "when" is sooner than the
\* one the key has (a key without expiry counts as never expiring)
expireat_lt(old, when) ==
    IF old = NoExpiry \/ when < old THEN when ELSE old

\* what get_oauth_userinfo's caller does with its outcome
after_userinfo(w, out) ==
    IF out.kind = "raise" THEN out
    ELSE IF caller[w] = "authenticate_token" THEN Return(token[w])
    ELSE IF caller[w] = "get_oauth_identity" THEN identity_email(out.value)
    ELSE validate_permissions(token[w], request[w], PERMISSIONS, out.value)

userinfo_done(w, out) ==
    /\ userinfo' = [userinfo EXCEPT ![w] = out]
    /\ finish(w, after_userinfo(w, out))


\* the cache window a successful remote fetch at time t opens for the
\* token's subject: min(exp claim if present, t + 3600)
window_end(decoded, t) ==
    IF "exp" \in DOMAIN decoded THEN Min(decoded.exp, t + CacheSeconds)
    ELSE t + CacheSeconds

\* the window of the worker's fetch, when no cache read error preceded it
fetch_window(w) ==
    IF "sub" \in DOMAIN token[w].decoded_token /\ ~hist[w].read_error
    THEN window_end(token[w].decoded_token, now)
    ELSE NoExpiry

\* whether the call the worker has finished fetched the claims of subject sub
\* remotely, with no cache error, and time t is within the window it opened
in_cache_window(w, decoded, t) ==
    /\ pc[w] = "done"
    /\ userinfo[w].kind = "return"
    /\ "sub" \in DOMAIN decoded
    /\ token[w] # None
    /\ token[w].decoded_token # None
    /\ "sub" \in DOMAIN token[w].decoded_token
    /\ token[w].decoded_token.sub = decoded.sub
    /\ hist[w].window # NoExpiry
    /\ t < hist[w].window

(***************************************************************************)
(* get_oauth_userinfo: the cache read                                      *)
(***************************************************************************)
\* faulty variant: RedisError of the cache read is not caught
cache_read_uncaught(decoded, h, redis_ok) ==
    LET sub == subscript(decoded, "sub")
    IN IF sub.kind = "raise" /\ sub.exc = "TypeError" THEN sub
       ELSE IF sub.kind = "raise" THEN [kind |-> "miss", read_error |-> FALSE]
       ELSE IF ~redis_ok THEN Raise("RedisError")
       ELSE IF sub.value \in DOMAIN h THEN Return(json_loads(h[sub.value]))
       ELSE [kind |-> "miss", read_error |-> FALSE]

\* hget(REDIS_OAUTH_USERINFO_KEY, token.decoded_token["sub"]) inside the try:
\* TypeError is not caught; KeyError and RedisError are logged and leave a miss
cache_read(decoded, h, redis_ok) ==
    LET sub == subscript(decoded, "sub")
    IN IF sub.kind = "raise" /\ sub.exc = "TypeError" THEN sub
       ELSE IF sub.kind = "raise" THEN [kind |-> "miss", read_error |-> FALSE]
       ELSE IF ~redis_ok THEN [kind |-> "miss", read_error |-> TRUE]
       ELSE IF sub.value \in DOMAIN h THEN Return(json_loads(h[sub.value]))
       ELSE [kind |-> "miss", read_error |-> FALSE]

get_oauth_userinfo(w, redis_ok) ==
    /\ pc[w] = "get_oauth_userinfo"
    /\ IF ~OIDC_ENABLED
       THEN /\ userinfo_done(w, Return(None))
            /\ UNCHANGED hist
       ELSE LET r == cache_read(token[w].decoded_token, redis_hash, redis_ok)
            IN IF r.kind = "raise"
               THEN /\ userinfo_done(w, r)
                    /\ UNCHANGED hist
               ELSE IF r.kind = "return"
               THEN /\ userinfo_done(w, r)
                    /\ hist' = [hist EXCEPT ![w].cache_hit = TRUE]
               ELSE /\ goto(w, "userinfo_metadata")
                    /\ hist' = [hist EXCEPT ![w].read_error = r.read_error]
                    /\ UNCHANGED userinfo
    /\ UNCHANGED <<cfgVars, muleVars, keyVars, cacheVars, now, authLocals, token,
                   caller, resp, permLocals>>

(***************************************************************************)
(* get_oauth_userinfo: the discovery document                              *)
(***************************************************************************)
MetadataOutcomes == {"ok", "http_error", "unreachable", "no_field", "not_json"}

metadata_failure(outcome) ==
    IF outcome \in {"http_error", "unreachable"} THEN Raise("ConnectionError")
    ELSE IF outcome = "no_field" THEN Raise("KeyError")
    ELSE Raise("requests.JSONDecodeError")

userinfo_metadata(w, outcome) ==
    /\ pc[w] = "userinfo_metadata"
    /\ hist' = [hist EXCEPT ![w].fetches = @ + 1,
                            ![w].remote_failure = (outcome # "ok")]
    /\ IF outcome = "ok"
       THEN /\ goto(w, "userinfo_post")
            /\ UNCHANGED userinfo
       ELSE userinfo_done(w, metadata_failure(outcome))
    /\ UNCHANGED <<cfgVars, muleVars, keyVars, cacheVars, now, authLocals, token,
                   caller, resp, permLocals>>

(***************************************************************************)
(* get_oauth_userinfo: the POST to the userinfo endpoint                   *)
(***************************************************************************)
PostOutcomes == {"ok", "http_error_described", "http_error", "not_json",
                 "unreachable"}

post_failure(outcome) ==
    IF outcome = "unreachable" THEN Raise("requests.ConnectionError")
    ELSE Raise("InvalidTokenError")

userinfo_post(w, outcome) ==
    /\ pc[w] = "userinfo_post"
    /\ IF outcome # "ok"
       THEN /\ userinfo_done(w, post_failure(outcome))
            /\ hist' = [hist EXCEPT ![w].posts = @ + 1,
                                    ![w].remote_failure = TRUE]
            /\ UNCHANGED resp
       ELSE /\ resp' = [resp EXCEPT ![w] = claims_of(token[w])]
            /\ IF token[w].decoded_token = None
               THEN \* "exp" in None
                    /\ userinfo_done(w, Raise("TypeError"))
                    /\ hist' = [hist EXCEPT ![w].posts = @ + 1]
               ELSE IF "exp" \in DOMAIN token[w].decoded_token
               THEN /\ goto(w, "userinfo_hsetnx")
                    /\ hist' = [hist EXCEPT ![w].posts = @ + 1]
                    /\ UNCHANGED userinfo
               ELSE \* nothing is written; return resp.json()
                    /\ userinfo_done(w, Return(claims_of(token[w])))
                    /\ hist' = [hist EXCEPT ![w].posts = @ + 1,
                                   ![w].window = fetch_window(w)]
    /\ UNCHANGED <<cfgVars, muleVars, keyVars, cacheVars, now, authLocals, token,
                   caller, permLocals>>

(***************************************************************************)
(* get_oauth_userinfo: the cache write, hsetnx and then expireat           *)
(***************************************************************************)
userinfo_hsetnx(w, redis_ok) ==
    /\ pc[w] = "userinfo_hsetnx"
    /\ LET sub == subscript(token[w].decoded_token, "sub")
       IN IF sub.kind = "raise"
          THEN \* KeyError is logged
               /\ userinfo_done(w, Return(resp[w]))
               /\ UNCHANGED <<redis_hash, written, hist>>
          ELSE IF ~redis_ok
          THEN \* RedisError is logged
               /\ userinfo_done(w, Return(resp[w]))
               /\ hist' = [hist EXCEPT ![w].write_error = TRUE]
               /\ UNCHANGED <<redis_hash, written>>
          ELSE /\ redis_hash' = hsetnx(redis_hash, sub.value, json_text(resp[w]))
               /\ written' = hsetnx(written, sub.value, token[w].decoded_token.exp)
               /\ hist' = [hist EXCEPT ![w].set_field = sub.value \notin DOMAIN redis_hash]
               /\ goto(w, "userinfo_expireat")
               /\ UNCHANGED userinfo
    /\ UNCHANGED <<cfgVars, muleVars, keyVars, redis_expiry, now, authLocals, token,
                   caller, resp, permLocals>>

userinfo_expireat(w, redis_ok) ==
    /\ pc[w] = "userinfo_expireat"
    /\ userinfo_done(w, Return(resp[w]))
    /\ IF ~redis_ok
       THEN \* RedisError is logged
            /\ hist' = [hist EXCEPT ![w].write_error = TRUE]
            /\ UNCHANGED <<redis_hash, redis_expiry, written>>
       ELSE /\ hist' = [hist EXCEPT ![w].window = fetch_window(w)]
            /\ LET when == expireat_lt(redis_expiry,
                               expire_at(token[w].decoded_token.exp, now))
               IN IF DOMAIN redis_hash = {}
                  THEN \* no such key: EXPIREAT does nothing
                       UNCHANGED <<redis_hash, redis_expiry, written>>
                  ELSE IF when <= now
                  THEN \* an expiry in the past deletes the key
                       /\ redis_hash' = <<>>
                       /\ written' = <<>>
                       /\ redis_expiry' = NoExpiry
                  ELSE /\ redis_expiry' = when
                       /\ UNCHANGED <<redis_hash, written>>
    /\ UNCHANGED <<cfgVars, muleVars, keyVars, now, authLocals, token, caller, resp,
                   permLocals>>

(***************************************************************************)
(* get_oauth_identity and validate_token, up to get_oauth_userinfo         *)
(***************************************************************************)
get_oauth_identity(w, tok) ==
    /\ pc[w] \in {"idle", "done"}
    /\ fresh(w, tok.token_string, tok, None, NoRequest, "get_oauth_identity",
             [NoHist EXCEPT !.in_window = in_cache_window(w, tok.decoded_token, now)])
    /\ IF ~OIDC_ENABLED
       THEN finish(w, Return([str |-> "Admin"]))
       ELSE /\ pc' = [pc EXCEPT ![w] = "get_oauth_userinfo"]
            /\ result' = [result EXCEPT ![w] = NoResult]
    /\ UNCHANGED <<cfgVars, muleVars, keyVars, cacheVars, now>>

validate_token(w, tok, sc, req) ==
    /\ pc[w] \in {"idle", "done"}
    /\ fresh(w, tok.token_string, tok, sc, req, "validate_token",
             [NoHist EXCEPT !.in_window = in_cache_window(w, tok.decoded_token, now)])
    /\ IF PERMISSIONS_DISABLED THEN finish(w, Return(tok))
       ELSE IF always_permitted(sc) THEN finish(w, Return(tok))
       ELSE IF not_rules(PERMISSIONS) THEN finish(w, Raise("InvalidAudienceError"))
       ELSE /\ pc' = [pc EXCEPT ![w] = "get_oauth_userinfo"]
            /\ result' = [result EXCEPT ![w] = NoResult]
    /\ UNCHANGED <<cfgVars, muleVars, keyVars, cacheVars, now>>

(***************************************************************************)
(* Time passes; redis drops the hash once its expiry is reached.           *)
(***************************************************************************)
tick ==
    /\ now < StartTime + MaxTicks * TickStep
    /\ now' = now + TickStep
    /\ IF redis_expiry # NoExpiry /\ redis_expiry <= now + TickStep
       THEN /\ redis_hash' = <<>>
            /\ written' = <<>>
            /\ redis_expiry' = NoExpiry
       ELSE UNCHANGED <<redis_hash, redis_expiry, written>>
    /\ UNCHANGED <<cfgVars, muleVars, keyVars, workerVars>>

(***************************************************************************)
(* Token validation: concurrent authenticate_token calls against the       *)
(* shared key store while the provider rotates its keys.                   *)
(***************************************************************************)
Next ==
    \/ \E w \in Workers : \E ts \in TokenStringsOf(w) : authenticate_token(w, ts)
    \/ \E w \in Workers : get_key(w)
    \/ \E w \in Workers, o \in GetOutcomes : get_keys_metadata(w, o)
    \/ \E w \in Workers, o \in GetOutcomes : get_keys_jwks(w, o)
    \/ \E w \in Workers : get_keys_install(w)
    \/ \E w \in Workers : get_key_downloaded(w)
    \/ \E w \in Workers : get_key_retry(w)
    \/ \E w \in Workers : authenticate_decode(w)
    \/ \E w \in Workers, ok \in BOOLEAN : get_oauth_userinfo(w, ok)
    \/ \E ks \in KeySets : rotate_keys(ks)

Spec == Init /\ [][Next]_vars

(***************************************************************************)
(* Identity resolution: concurrent get_oauth_userinfo calls against the    *)
(* redis hash while time passes.                                           *)
(***************************************************************************)
InitCache ==
    /\ OIDC_ENABLED = TRUE
    /\ VERIFY_AUDIENCE = FALSE
    /\ JWT_ENABLED = TRUE
    /\ PERMISSIONS_DISABLED = FALSE
    /\ PERMISSIONS = None
    /\ idp_keys = <<K1>>
    /\ InitState

NextCache ==
    \/ \E w \in Workers : \E tok \in TokensOf(w) : get_oauth_identity(w, tok)
    \/ \E w \in Workers, ok \in BOOLEAN : get_oauth_userinfo(w, ok)
    \/ \E w \in Workers, o \in MetadataOutcomes : userinfo_metadata(w, o)
    \/ \E w \in Workers, o \in PostOutcomes : userinfo_post(w, o)
    \/ \E w \in Workers, ok \in BOOLEAN : userinfo_hsetnx(w, ok)
    \/ \E w \in Workers, ok \in BOOLEAN : userinfo_expireat(w, ok)
    \/ tick

SpecCache == InitCache /\ [][NextCache]_vars

(***************************************************************************)
(* The permission gate: validate_token calls for every setting of the rule *)
(* table and of PERMISSIONS_DISABLED, every scope list and request.        *)
(***************************************************************************)
PermWorkers == {"w1"}

InitPerm ==
    /\ OIDC_ENABLED \in BOOLEAN
    /\ VERIFY_AUDIENCE = FALSE
    /\ JWT_ENABLED = TRUE
    /\ PERMISSIONS_DISABLED \in BOOLEAN
    /\ PERMISSIONS \in RuleTables
    /\ idp_keys = <<K1>>
    /\ InitState

NextPerm ==
    \/ \E w \in PermWorkers, tok \in IdentTokens, sc \in ScopeLists, req \in Requests :
          validate_token(w, tok, sc, req)
    \/ \E w \in PermWorkers, ok \in BOOLEAN : get_oauth_userinfo(w, ok)
    \/ \E w \in PermWorkers, o \in MetadataOutcomes : userinfo_metadata(w, o)
    \/ \E w \in PermWorkers, o \in PostOutcomes : userinfo_post(w, o)
    \/ \E w \in PermWorkers, ok \in BOOLEAN : userinfo_hsetnx(w, ok)
    \/ \E w \in PermWorkers, ok \in BOOLEAN : userinfo_expireat(w, ok)
    \/ tick

SpecPerm == InitPerm /\ [][NextPerm]_vars

(***************************************************************************)
(* The strategies chosen when the module is loaded: login_required and     *)
(* get_identity, and jwt_required / get_jwt_identity behind them.          *)
(***************************************************************************)
\* faulty variant: JWT_ENABLED is looked at first, whatever OIDC_ENABLED is
login_required_jwt_first(oidc, jwt) ==
    IF ~jwt THEN "fn"
    ELSE IF oidc THEN "oauth_required"
    ELSE "jwt_orig"

\* what login_required wraps a handler with: the ResourceProtector when
\* OIDC_ENABLED, else jwt_required, which is flask_jwt_extended's decorator
\* when JWT_ENABLED and the handler itself otherwise
login_required(oidc, jwt) ==
    IF oidc THEN "oauth_required"
    ELSE IF jwt THEN "jwt_orig"
    ELSE "fn"

\* flask_jwt_extended's verification of the bearer token of the request
verify_jwt_in_request(ts, t) ==
    IF ~ts.structured THEN Raise("DecodeError")
    ELSE IF ts.signer = "forged" THEN Raise("InvalidSignatureError")
    ELSE IF "exp" \in DOMAIN ts.payload /\ ts.payload.exp < t
         THEN Raise("ExpiredSignatureError")
    ELSE Return(ts.payload)

\* the handler's own return value
HandlerRuns == Return([str |-> "handler"])

\* faulty variant: the identity is always taken from the request's token
get_jwt_identity_orig_always(jwt, ts) ==
    IF ts.structured THEN [str |-> ts.payload.sub] ELSE [str |-> "anonymous"]

\* get_jwt_identity_orig() if api_settings.JWT_ENABLED else "admin"
get_jwt_identity(jwt, ts) ==
    IF jwt THEN [str |-> ts.payload.sub] ELSE [str |-> "admin"]

\* the tokens requests arrive with
GateTokenStrings == AuthTokenStrings \cup RacerTokenStrings

\* a request reaches a handler wrapped by login_required
request_arrives(w, ts) ==
    /\ pc[w] \in {"idle", "done"}
    /\ LET strategy == login_required(OIDC_ENABLED, JWT_ENABLED)
       IN IF strategy = "oauth_required"
          THEN authenticate_token(w, ts)
          ELSE /\ fresh(w, ts, None, None, NoRequest, "login_required",
                        [NoHist EXCEPT !.inspected = (strategy = "jwt_orig")])
               /\ IF strategy = "jwt_orig"
                  THEN LET v == verify_jwt_in_request(ts, now)
                       IN finish(w, IF v.kind = "raise" THEN v ELSE HandlerRuns)
                  ELSE finish(w, HandlerRuns)
               /\ UNCHANGED <<cfgVars, muleVars, keyVars, cacheVars, now>>

\* the ResourceProtector, after authenticate_token returned the token, calls
\* validate_token with the scopes the handler was wrapped with
protector_validate(w, sc, req) ==
    /\ OIDC_ENABLED
    /\ pc[w] = "done"
    /\ caller[w] \in {"none", "authenticate_token"}
    /\ result[w].kind = "return"
    /\ validate_token(w, result[w].value, sc, req)

\* the handler is running: the request came through login_required
in_handler(w) ==
    /\ pc[w] = "done"
    /\ result[w].kind = "return"
    /\ caller[w] \in {"validate_token", "login_required"}

\* the handler asks get_identity() who the caller is
get_identity(w) ==
    /\ in_handler(w)
    /\ IF OIDC_ENABLED
       THEN get_oauth_identity(w, token[w])
       ELSE /\ caller' = [caller EXCEPT ![w] = "get_jwt_identity"]
            /\ finish(w, Return(get_jwt_identity(JWT_ENABLED, token_string[w])))
            /\ UNCHANGED <<cfgVars, muleVars, keyVars, cacheVars, now, authLocals, token,
                           resp, userinfo, permLocals, hist>>

(***************************************************************************)
(* The gate: requests pass login_required and then ask get_identity, for   *)
(* every setting of OIDC_ENABLED, JWT_ENABLED and the permission options.  *)
(***************************************************************************)
GateWorkers == {"w1"}

InitGate ==
    /\ OIDC_ENABLED \in BOOLEAN
    /\ VERIFY_AUDIENCE = FALSE
    /\ JWT_ENABLED \in BOOLEAN
    /\ PERMISSIONS_DISABLED \in BOOLEAN
    /\ PERMISSIONS \in RuleTables
    /\ idp_keys = <<K1, K2>>
    /\ InitState

NextGate ==
    \/ \E w \in GateWorkers, ts \in GateTokenStrings : request_arrives(w, ts)
    \/ \E w \in GateWorkers : get_key(w)
    \/ \E w \in GateWorkers, o \in GetOutcomes : get_keys_metadata(w, o)
    \/ \E w \in GateWorkers, o \in GetOutcomes : get_keys_jwks(w, o)
    \/ \E w \in GateWorkers : get_keys_install(w)
    \/ \E w \in GateWorkers : get_key_downloaded(w)
    \/ \E w \in GateWorkers : get_key_retry(w)
    \/ \E w \in GateWorkers : authenticate_decode(w)
    \/ \E w \in GateWorkers, sc \in ScopeLists, req \in Requests :
          protector_validate(w, sc, req)
    \/ \E w \in GateWorkers : get_identity(w)
    \/ \E w \in GateWorkers, ok \in BOOLEAN : get_oauth_userinfo(w, ok)
    \/ \E w \in GateWorkers, o \in MetadataOutcomes : userinfo_metadata(w, o)
    \/ \E w \in GateWorkers, o \in PostOutcomes : userinfo_post(w, o)
    \/ \E w \in GateWorkers, ok \in BOOLEAN : userinfo_hsetnx(w, ok)
    \/ \E w \in GateWorkers, ok \in BOOLEAN : userinfo_expireat(w, ok)

SpecGate == InitGate /\ [][NextGate]_vars

(***************************************************************************)
(* cnaas_nms/scheduler_mule.py: main_loop reads the messages sent to the   *)
(* uwsgi mule one by one and turns each into a scheduler.add_job call.  A  *)
(* message is a JSON object; its values carry their JSON type.             *)
(***************************************************************************)
\* (n holds a number, s a string; the other of the two is left empty)
IntVal(n) == [type |-> "int", n |-> n, s |-> ""]
StrVal(x) == [type |-> "str", n |-> 0, s |-> x]
DatetimeVal(t) == [type |-> "datetime", n |-> t, s |-> ""]

\* the messages the API workers send to the mule
MuleMessages ==
    { [func |-> StrVal("sync_devices"), trigger |-> StrVal("date"), id |-> StrVal("j1"),
       when |-> IntVal(30), hostname |-> StrVal("sw1")],
      [func |-> StrVal("sync_devices"), trigger |-> StrVal("date"), id |-> StrVal("j2"),
       when |-> IntVal(0 - 5), run_date |-> StrVal("2020-01-01"), job_id |-> IntVal(7)],
      [func |-> StrVal("init_device"), trigger |-> StrVal("date"), id |-> StrVal("j3"),
       when |-> IntVal(0), hostname |-> StrVal("sw2")],
      [func |-> StrVal("init_device"), trigger |-> StrVal("date"), id |-> StrVal("j4"),
       when |-> IntVal(0), run_date |-> StrVal("2020-01-01")],
      [func |-> StrVal("refresh_repo"), trigger |-> StrVal("date"), id |-> StrVal("j5"),
       when |-> StrVal("10"), run_date |-> StrVal("2020-01-01")] }

\* data['when'] and isinstance(data['when'], int)
when_given(data) == data["when"].type = "int" /\ data["when"].n # 0

\* the dict without the member
del(data, name) == [k \in DOMAIN data \ {name} |-> data[k]]

\* the dict with the member set
set_item(data, name, value) ==
    [k \in DOMAIN data \cup {name} |-> IF k = name THEN value ELSE data[k]]

\* data['run_date'] = utcnow() + timedelta(seconds=data['when']); del data['when']
with_run_date(data, t) ==
    IF when_given(data)
    THEN del(set_item(data, "run_date", DatetimeVal(t + data["when"].n)), "when")
    ELSE data

\* faulty variant: run_date is passed on among the keyword arguments too
kwargs_of_with_run_date(data) ==
    [k \in DOMAIN data \ {"func", "trigger", "id"} |-> data[k]]

\* the members that are not func, trigger, id or run_date
kwargs_of(data) ==
    [k \in DOMAIN data \ {"func", "trigger", "id", "run_date"} |-> data[k]]

\* the arguments of scheduler.add_job
add_job(data) ==
    [func |-> data["func"], trigger |-> data["trigger"], kwargs |-> kwargs_of(data),
     id |-> data["id"], run_date |-> data["run_date"]]

\* main_loop up to the loop: without uwsgi it returns at once
main_loop(has_uwsgi) ==
    /\ mule_pc = "start"
    /\ mule_pc' = IF has_uwsgi THEN "loop" ELSE "returned"
    /\ UNCHANGED <<mule_msgs, jobs, cfgVars, keyVars, cacheVars, now, workerVars>>

\* an API worker sends a message to the mule
mule_msg(m) ==
    /\ Len(mule_msgs) + Len(jobs) < MaxSent
    /\ mule_pc # "crashed"
    /\ mule_msgs' = Append(mule_msgs, m)
    /\ UNCHANGED <<mule_pc, jobs, cfgVars, keyVars, cacheVars, now, workerVars>>

\* one turn of the loop: uwsgi.mule_get_msg() to scheduler.add_job(...)
main_loop_turn ==
    /\ mule_pc = "loop"
    /\ Len(mule_msgs) > 0
    /\ mule_msgs' = Tail(mule_msgs)
    /\ LET data == with_run_date(Head(mule_msgs), now)
       IN IF "run_date" \notin DOMAIN data
          THEN \* KeyError leaves main_loop
               /\ mule_pc' = "crashed"
               /\ UNCHANGED jobs
          ELSE /\ jobs' = Append(jobs, add_job(data))
               /\ UNCHANGED mule_pc
    /\ UNCHANGED <<cfgVars, keyVars, cacheVars, now, workerVars>>

(***************************************************************************)
(* The scheduler mule: messages arrive while time passes.                  *)
(***************************************************************************)
InitMule ==
    /\ OIDC_ENABLED = TRUE
    /\ VERIFY_AUDIENCE = FALSE
    /\ JWT_ENABLED = TRUE
    /\ PERMISSIONS_DISABLED = FALSE
    /\ PERMISSIONS = None
    /\ idp_keys = <<K1>>
    /\ InitState

NextMule ==
    \/ \E u \in BOOLEAN : main_loop(u)
    \/ \E m \in MuleMessages : mule_msg(m)
    \/ main_loop_turn
    \/ tick

SpecMule == InitMule /\ [][NextMule]_vars

(***************************************************************************)
(* Properties of token validation (checked under Spec)                     *)
(***************************************************************************)
\* the worker validates, or has validated, a structured token
Structured(w) ==
    /\ OIDC_ENABLED
    /\ pc[w] # "idle"
    /\ caller[w] = "none"
    /\ token_string[w].structured

\* the first lookup of the worker's validation is over
LookedUp(w) == Structured(w) /\ pc[w] # "get_key"

\* C1: a validation of a structured token whose key identifier is not in the
\* key store at lookup time calls get_keys exactly once and looks up at most
\* once more; if the key is still missing after the refresh it fails with
\* InvalidKeyError; no validation calls get_keys twice.
C1_OneRefreshOnMiss ==
    \A w \in Workers :
        Structured(w) =>
            /\ hist[w].refreshes <= 1
            /\ hist[w].lookups <= 2
            /\ LookedUp(w) /\ hist[w].absent => hist[w].refreshes = 1
            /\ pc[w] = "done" /\ hist[w].absent /\ hist[w].refreshed
                   /\ Len(key[w]) = 0
                 => result[w] = Raise("InvalidKeyError")

\* C2: a token with a valid signature, a key identifier that resolves to a
\* key, an unexpired exp claim and, when VERIFY_AUDIENCE is set, the
\* configured audience makes authenticate_token return a Token whose decoded
\* claims are the token's payload.
SignedByResolvedKey(w) ==
    /\ Len(key[w]) > 0
    /\ \E i \in 1..Len(key[w]) : key[w][i].mat = token_string[w].signer

Unexpired(payload) == "exp" \in DOMAIN payload => payload.exp >= now

AudienceOk(payload) == VERIFY_AUDIENCE => payload.aud = AUDIENCE

C2_ValidTokenReturnsPayload ==
    \A w \in Workers :
        /\ Structured(w)
        /\ pc[w] = "done"
        /\ SignedByResolvedKey(w)
        /\ Unexpired(token_string[w].payload)
        /\ AudienceOk(token_string[w].payload)
        => /\ result[w].kind = "return"
           /\ result[w].value.token_string = token_string[w]
           /\ result[w].value.decoded_token = token_string[w].payload

\* a valid token whose key came with the one refresh, with an audience that
\* is not the configured one while VERIFY_AUDIENCE is off, was accepted
C2_Witness ==
    \E w \in Workers :
        /\ Structured(w)
        /\ pc[w] = "done"
        /\ hist[w].refreshed
        /\ SignedByResolvedKey(w)
        /\ ~VERIFY_AUDIENCE
        /\ token_string[w].payload.aud # AUDIENCE
        /\ result[w].kind = "return"
        /\ result[w].value.decoded_token = token_string[w].payload

\* C8: when the lookup misses and the refresh fails because the discovery or
\* key-set endpoint is unreachable, the validation fails with InvalidKeyError.
C8_UnreachableIsInvalidKey ==
    \A w \in Workers :
        Structured(w) /\ pc[w] = "done" /\ hist[w].refresh_failure = "unreachable"
        => result[w] = Raise("InvalidKeyError")

\* C9: a token string without a decodable header is accepted as a Token
\* without claims when its identity resolves, and fails with InvalidTokenError
\* otherwise; it fails with nothing else and never reaches the key lookup.
C9_OpaquePath ==
    \A w \in Workers :
        /\ OIDC_ENABLED
        /\ pc[w] = "done"
        /\ caller[w] = "authenticate_token"
        /\ ~token_string[w].structured
        => /\ \/ result[w] = Return(Token(token_string[w], None))
              \/ result[w] = Raise("InvalidTokenError")
           /\ hist[w].lookups = 0

(***************************************************************************)
(* Properties of identity resolution (checked under SpecCache)             *)
(***************************************************************************)
\* C3: of two resolutions of the same subject, the second starting after the
\* first returned successfully and within the cache window, at most one
\* issues the userinfo POST: the second is served from the cache.
C3_SecondServedFromCache ==
    \A w \in Workers :
        hist[w].in_window /\ ~hist[w].read_error
        => /\ hist[w].posts = 0
           /\ pc[w] = "done" /\ userinfo[w].kind = "return" => hist[w].cache_hit

\* the worker's expireat call goes through in this step, with the entry its
\* hsetnx wrote still in the cache
WroteExpiry(w) ==
    /\ pc[w] = "userinfo_expireat"
    /\ pc'[w] = "done"
    /\ ~hist'[w].write_error
    /\ hist[w].set_field
    /\ token[w].decoded_token.sub \in DOMAIN redis_hash

\* C4 as stated: after a successful introspection at write_time for a token
\* with expiry claim token_exp, the expiry of the entry written for its subject
\* is min(token_exp, write_time + 3600), whatever the cache already holds
\* (an instant that is not in the future: the entry is gone at once).
C4_ExpiryIsMin ==
    [][\A w \in Workers :
          WroteExpiry(w)
          => LET mine == Min(token[w].decoded_token.exp, now + CacheSeconds)
             IN IF mine > now
                THEN /\ redis_expiry' = mine
                     /\ token[w].decoded_token.sub \in DOMAIN redis_hash'
                ELSE token[w].decoded_token.sub \notin DOMAIN redis_hash']_vars

\* C4 as amended: the entry expires at min(token_exp, write_time + 3600) when
\* the hash had no expiry before, and otherwise at the earlier of that and
\* the expiry the hash already had; an instant that is not in the future
\* removes the entry at once.
C4_ExpiryIsMinWithPrevious ==
    [][\A w \in Workers :
          WroteExpiry(w)
          => LET mine == Min(token[w].decoded_token.exp, now + CacheSeconds)
                 e == IF redis_expiry = NoExpiry THEN mine
                      ELSE Min(redis_expiry, mine)
             IN IF e > now
                THEN /\ redis_expiry' = e
                     /\ token[w].decoded_token.sub \in DOMAIN redis_hash'
                ELSE token[w].decoded_token.sub \notin DOMAIN redis_hash']_vars

\* an entry written for a token that expires later than an hour after the
\* write expires one hour after the write
C4_Witness ==
    \E w \in Workers :
        /\ pc[w] = "done"
        /\ hist[w].posts = 1
        /\ hist[w].set_field
        /\ ~hist[w].write_error
        /\ "exp" \in DOMAIN token[w].decoded_token
        /\ "sub" \in DOMAIN token[w].decoded_token
        /\ token[w].decoded_token.sub \in DOMAIN redis_hash
        /\ token[w].decoded_token.exp > redis_expiry
        /\ redis_expiry = hist[w].window

\* no worker is between its hsetnx and its expireat
Quiescent == \A w \in Workers : pc[w] # "userinfo_expireat"

\* C5: every entry in the cache has an expiry, at most the exp claim of the
\* token that wrote it and at most one hour after its write.
C5_EntriesExpire ==
    Quiescent =>
        \A s \in DOMAIN redis_hash :
            /\ redis_expiry # NoExpiry
            /\ redis_expiry <= written[s]
            /\ redis_expiry <= now + CacheSeconds

\* C10: a RedisError on the cache read or write never fails
\* get_oauth_userinfo: after a read error the remote endpoints are asked, and
\* after a write error the fetched claims are returned.
C10_CacheErrorsNeverFail ==
    \A w \in Workers :
        /\ hist[w].read_error => pc[w] = "userinfo_metadata" \/ hist[w].fetches >= 1
        /\ hist[w].read_error /\ pc[w] = "done" /\ ~hist[w].remote_failure
               => hist[w].posts = 1
        /\ pc[w] = "done" /\ hist[w].write_error
               => userinfo[w] = Return(claims_of(token[w]))
        /\ pc[w] = "done" /\ userinfo[w].kind = "raise" => hist[w].remote_failure

\* a resolution whose cache read and cache write both failed returned claims
C10_Witness ==
    \E w \in Workers :
        /\ pc[w] = "done"
        /\ hist[w].read_error
        /\ hist[w].write_error
        /\ userinfo[w] = Return(claims_of(token[w]))

(***************************************************************************)
(* Properties of the permission gate (checked under SpecPerm)              *)
(***************************************************************************)
Validated(w) == pc[w] = "done" /\ caller[w] = "validate_token"

AsksAlwaysPermitted(w) ==
    scopes[w] # None /\ "always_permitted" \in scopes[w].items

NoRulesSet == PERMISSIONS = None \/ PERMISSIONS.rules = {}

\* C6: validate_token returns the token for every request whose scopes
\* contain "always_permitted", whatever the claims, the rule table and
\* PERMISSIONS_DISABLED.
C6_AlwaysPermittedAllowed ==
    \A w \in Workers :
        Validated(w) /\ AsksAlwaysPermitted(w) => result[w] = Return(token[w])

\* a request with "always_permitted" among its scopes passed although no rule
\* is set and permissions are not disabled
C6_Witness ==
    \E w \in Workers :
        /\ Validated(w)
        /\ AsksAlwaysPermitted(w)
        /\ scopes[w].items # {"always_permitted"}
        /\ ~PERMISSIONS_DISABLED
        /\ NoRulesSet
        /\ result[w] = Return(token[w])

\* C7 as stated: without PERMISSIONS_DISABLED and with an empty or unset rule
\* table, validate_token denies every request, whatever its scopes.
C7_EmptyTableDeniesAll ==
    \A w \in Workers :
        Validated(w) /\ ~PERMISSIONS_DISABLED /\ NoRulesSet
        => result[w] = Raise("InvalidAudienceError")

\* C7 as amended: ... denies every request whose scopes do not contain
\* "always_permitted".
C7_EmptyTableDeniesUnlessAlwaysPermitted ==
    \A w \in Workers :
        Validated(w) /\ ~PERMISSIONS_DISABLED /\ NoRulesSet
            /\ ~AsksAlwaysPermitted(w)
        => result[w] = Raise("InvalidAudienceError")

\* a request with another scope was denied under the empty rule table
C7_Witness ==
    \E w \in Workers :
        /\ Validated(w)
        /\ ~PERMISSIONS_DISABLED
        /\ PERMISSIONS = EmptyRules
        /\ scopes[w] = [items |-> {"read"}]
        /\ result[w] = Raise("InvalidAudienceError")

(***************************************************************************)
(* Properties of the key store under concurrency (checked under Spec)      *)
(***************************************************************************)
\* the key identifier in the header of the worker's token
kid_of(w) == token_string[w].header.kid

\* the worker takes a step of its own call
steps(w) == pc'[w] # pc[w]

\* C11: the key store only ever changes by being set to the whole key set
\* that one worker's single key-set fetch returned, and every such fetch
\* returns the key set the provider served at that moment; so every value a
\* reader finds in the store is the initial one or one complete fetched set.
C11_WholesaleInstall ==
    [][/\ jwks_store' # jwks_store =>
              \E w \in Workers :
                  /\ pc[w] = "get_keys_install"
                  /\ steps(w)
                  /\ jwks_store' = response[w]
       /\ \A w \in Workers :
              response'[w] # response[w] /\ response'[w] # <<>>
                  => response'[w] = idp_keys
      ]_vars

\* a reader is about to look up in a two-key set installed by the other
\* worker, while its own fetch had returned a different set
C11_Witness ==
    /\ pc["w1"] = "get_key_retry"
    /\ hist["w1"].refreshed
    /\ hist["w2"].refreshed
    /\ Len(jwks_store) = 2
    /\ jwks_store = response["w2"]
    /\ response["w1"] # response["w2"]

\* C12: the step at which a refresh fails at the discovery document or at
\* the key set (unreachable, not JSON, or without the expected field) leaves
\* the key store as it is, which is the store the refresh started from
\* unless another worker's refresh replaced it meanwhile; and a refresh that
\* failed never installs anything afterwards.
C12_FailedRefreshKeepsStore ==
    /\ [][\A w \in Workers :
              hist[w].refresh_failure = "none" /\ hist'[w].refresh_failure # "none"
              => /\ jwks_store' = jwks_store
                 /\ ~hist[w].overwritten => jwks_store' = hist[w].snapshot
         ]_vars
    /\ [](\A w \in Workers :
              hist[w].refresh_failure # "none"
              => pc[w] = "done" /\ ~hist[w].refreshed)

\* a refresh failed at the key set for want of the "keys" field while the
\* store held keys of an earlier refresh, and the store still holds them
C12_Witness ==
    \E w \in Workers :
        /\ Structured(w)
        /\ pc[w] = "done"
        /\ hist[w].refresh_failure = "no_field"
        /\ hist[w].fetches = 2
        /\ result[w] = Raise("InvalidKeyError")
        /\ Len(jwks_store) > 0
        /\ \A o \in Workers \ {w} : pc[o] \in {"idle", "done"}

\* C13: when the key of a token resolves and verifies its signature and the
\* token's exp claim is in the past, authenticate_token raises
\* ExpiredSignatureError and returns no Token, whatever the audience is.
C13_ExpiredIsExpiredSignature ==
    [][\A w \in Workers :
           /\ Structured(w)
           /\ pc[w] = "decode"
           /\ steps(w)
           /\ SignedByResolvedKey(w)
           /\ "exp" \in DOMAIN token_string[w].payload
           /\ token_string[w].payload.exp < now
           => /\ result'[w] = Raise("ExpiredSignatureError")
              /\ token'[w] = None
      ]_vars

\* an expired token with a foreign audience, audience verification on, was
\* rejected as expired
C13_Witness ==
    \E w \in Workers :
        /\ Structured(w)
        /\ pc[w] = "done"
        /\ VERIFY_AUDIENCE
        /\ SignedByResolvedKey(w)
        /\ token_string[w].payload.exp < now
        /\ token_string[w].payload.aud # AUDIENCE
        /\ result[w] = Raise("ExpiredSignatureError")

\* C18: a validation whose own refresh fetched a key set that holds the
\* token's key identifier does not end at the checks after the refresh: it
\* finds the key on its retry lookup and goes on to decode.
C18_FetchedKeyIsResolved ==
    [][\A w \in Workers :
           /\ Structured(w)
           /\ pc[w] \in {"get_key_downloaded", "get_key_retry"}
           /\ steps(w)
           /\ kid_in_store(response[w], kid_of(w))
           => pc'[w] # "done"
      ]_vars

\* C19: a validation that found its key identifier in the store at the
\* first lookup makes no remote request and no refresh, and none of its
\* steps changes the key store.
C19_HitFetchesNothing ==
    /\ [](\A w \in Workers :
              LookedUp(w) /\ ~hist[w].absent
              => /\ hist[w].fetches = 0
                 /\ hist[w].refreshes = 0
                 /\ ~hist[w].refreshed
                 /\ hist[w].lookups = 1)
    /\ [][\A w \in Workers :
              Structured(w)' /\ steps(w) /\ ~hist'[w].absent
                  /\ pc[w] \in {"get_key", "decode"}
              => jwks_store' = jwks_store
         ]_vars

\* the second key of a two-key store was found at the first lookup and the
\* token accepted
C19_Witness ==
    \E w \in Workers :
        /\ Structured(w)
        /\ pc[w] = "done"
        /\ ~hist[w].absent
        /\ kid_of(w) = "k2"
        /\ Len(jwks_store) = 2
        /\ hist[w].fetches = 0
        /\ result[w].kind = "return"

(***************************************************************************)
(* The cache write of identity resolution (checked under SpecCache)        *)
(***************************************************************************)
\* the worker's resolution ends at this step, after one successful POST to
\* the userinfo endpoint and without a redis error on the write, for a token
\* that names its subject and has not expired
FetchedAndReturns(w) ==
    /\ OIDC_ENABLED
    /\ caller[w] = "get_oauth_identity"
    /\ pc[w] # "done"
    /\ pc'[w] = "done"
    /\ userinfo'[w].kind = "return"
    /\ hist'[w].posts = 1
    /\ ~hist'[w].write_error
    /\ "sub" \in DOMAIN token[w].decoded_token
    /\ "exp" \in DOMAIN token[w].decoded_token => token[w].decoded_token.exp > now

\* C17: a resolution that missed the cache and fetched the claims remotely
\* leaves an entry for the token's subject in the cache, and the cache has
\* an expiry no later than one hour after the write, whether or not the
\* token has an exp claim.
C17_WriteThroughWithoutExp ==
    [][\A w \in Workers :
           FetchedAndReturns(w)
           => /\ token[w].decoded_token.sub \in DOMAIN redis_hash'
              /\ redis_expiry' # NoExpiry
              /\ redis_expiry' <= now + CacheSeconds
      ]_vars

(***************************************************************************)
(* Properties of the gate (checked under SpecGate)                         *)
(***************************************************************************)
\* get_identity has answered the handler of the worker's request
IdentityGiven(w) ==
    /\ pc[w] = "done"
    /\ result[w].kind = "return"
    /\ caller[w] \in {"get_jwt_identity", "get_oauth_identity"}

\* the request of the worker went past login_required untouched
PassedUninspected(w) ==
    /\ caller[w] \in {"login_required", "get_jwt_identity"}
    /\ pc[w] = "done"
    /\ result[w].kind = "return"
    /\ ~hist[w].inspected
    /\ hist[w].lookups = 0

\* C14: with OIDC_ENABLED false, whatever the other options are, get_identity
\* returns the constant "admin" for every request and validate_token is
\* never executed.
C14_UnverifiedFixedIdentity ==
    \A w \in GateWorkers :
        ~OIDC_ENABLED
        => /\ caller[w] # "validate_token"
           /\ IdentityGiven(w) => result[w] = Return([str |-> "admin"])

\* C14 as it holds: with OIDC_ENABLED false validate_token is never executed
\* whatever the other options are; get_identity returns the constant "admin"
\* when JWT_ENABLED is false, and the subject of the request's verified JWT
\* when JWT_ENABLED is true.
C14_UnverifiedFixedIdentityUnlessJwt ==
    \A w \in GateWorkers :
        ~OIDC_ENABLED
        => /\ caller[w] # "validate_token"
           /\ IdentityGiven(w) /\ ~JWT_ENABLED
                  => result[w] = Return([str |-> "admin"])
           /\ IdentityGiven(w) /\ JWT_ENABLED
                  => result[w] = Return([str |-> token_string[w].payload.sub])

\* a request with a token of bob got the identity "admin" although
\* permissions are enabled and there is no rule table
C14_Witness ==
    \E w \in GateWorkers :
        /\ ~OIDC_ENABLED
        /\ ~JWT_ENABLED
        /\ ~PERMISSIONS_DISABLED
        /\ PERMISSIONS = None
        /\ IdentityGiven(w)
        /\ token_string[w].structured
        /\ token_string[w].payload.sub = "bob"
        /\ result[w] = Return([str |-> "admin"])

DecidedByRules(w) ==
    /\ caller[w] = "validate_token"
    /\ pc[w] = "done"
    /\ ~PERMISSIONS_DISABLED
    /\ ~always_permitted(scopes[w])
    /\ ~not_rules(PERMISSIONS)

\* the permission set of the claims get_oauth_userinfo returned
ResolvedPermissions(w) == get_permissions_user(PERMISSIONS, userinfo[w].value)

\* C16: a request that the rules decide is allowed exactly when the identity
\* claims were resolved and their permission set is not empty and holds an
\* entry matching the request; when it is not allowed although the claims
\* were resolved, InvalidAudienceError is raised; and authenticate_token
\* never ends with InvalidAudienceError.
C16_AllowedIffPermitted ==
    \A w \in GateWorkers :
        /\ DecidedByRules(w)
           => /\ result[w] = Return(token[w])
                  <=> /\ userinfo[w].kind = "return"
                      /\ ResolvedPermissions(w) # {}
                      /\ check_if_api_call_is_permitted(request[w],
                                                        ResolvedPermissions(w))
              /\ userinfo[w].kind = "return" /\ result[w] # Return(token[w])
                  => result[w] = Raise("InvalidAudienceError")
        /\ caller[w] \in {"none", "authenticate_token"} /\ pc[w] = "done"
           => result[w] # Raise("InvalidAudienceError")

\* a member of network-admins was denied the DELETE that no entry of its
\* non-empty permission set matches
C16_Witness ==
    \E w \in GateWorkers :
        /\ DecidedByRules(w)
        /\ userinfo[w].kind = "return"
        /\ ResolvedPermissions(w) # {}
        /\ request[w].method = "DELETE"
        /\ result[w] = Raise("InvalidAudienceError")

(***************************************************************************)
(* Properties of the scheduler mule (checked under SpecMule)               *)
(***************************************************************************)
\* the message the next turn of the loop reads has a non-zero integer "when"
ReadsDelayed ==
    /\ mule_pc = "loop"
    /\ Len(mule_msgs) > 0
    /\ mule_msgs' = Tail(mule_msgs)
    /\ Head(mule_msgs)["when"].type = "int"
    /\ Head(mule_msgs)["when"].n # 0

\* the add_job call C20 expects for message m received at time t
ExpectedJob(m, t) ==
    [func |-> m["func"], trigger |-> m["trigger"], id |-> m["id"],
     run_date |-> DatetimeVal(t + m["when"].n),
     kwargs |-> [k \in DOMAIN m \ {"func", "trigger", "id", "run_date", "when"}
                    |-> m[k]]]

\* C20: the turn of the loop that reads a message whose "when" is a non-zero
\* integer makes exactly one add_job call, appended after those of the
\* messages read before, with run_date the time of that turn plus "when"
\* seconds and kwargs the message's members other than func, trigger, id,
\* run_date and when; and add_job calls are only ever appended, one a turn.
C20_DelayedMessageAddsOneJob ==
    [][/\ ReadsDelayed
          => /\ jobs' = Append(jobs, ExpectedJob(Head(mule_msgs), now))
             /\ mule_pc' = "loop"
       /\ jobs' # jobs
          => /\ Len(jobs') = Len(jobs) + 1
             /\ SubSeq(jobs', 1, Len(jobs)) = jobs
             /\ mule_msgs' = Tail(mule_msgs)
      ]_vars

\* two delayed messages, the second with a run_date of its own and read
\* after time had passed, were added in the order they were sent
C20_Witness ==
    /\ Len(jobs) = 2
    /\ jobs[1].id = StrVal("j1")
    /\ jobs[1].run_date = DatetimeVal(StartTime + 30)
    /\ jobs[1].kwargs = [hostname |-> StrVal("sw1")]
    /\ jobs[2].id = StrVal("j2")
    /\ jobs[2].run_date = DatetimeVal(StartTime + TickStep - 5)
    /\ jobs[2].kwargs = [job_id |-> IntVal(7)]

====
